---- MODULE Spec2Model ----
(***************************************************************************)
(* Model of paperwork_backend/fs.py: the Gio-backed byte stream adapter    *)
(* (GioFileAdapter), the UTF-8 text adapter (GioUTF8FileAdapter) and the   *)
(* filesystem facade (GioFileSystem).  The storage backend (Gio) is        *)
(* modelled by the primitives fs.py calls on it.                           *)
(***************************************************************************)
EXTENDS Integers, Sequences, FiniteSets, TLC

\* ---------------------------------------------------------------- bounds
\* longest resource content and furthest cursor position explored
MaxLen == 2
\* number of close() calls explored on one stream
MaxClose == 2
\* longest content handed to readlines()
MaxLine == 4
\* longest string handed to safe() / unsafe(), the "file://" prefix apart
MaxPath == 3

\* ------------------------------------------------------------ vocabulary
\* the newline byte b"\n" of readlines(), also os.linesep on POSIX
NL == 10
\* bytes of the model: 0 (also what holes are filled with) and newline
Byte == {0, NL}

Contents == UNION {[1..n -> Byte] : n \in 0..MaxLen}

\* resources of the backend and the URIs that name them; two URIs name "ra"
Res == {"ra", "rb"}
URIs == {"file:///a", "file:///d/../a", "file:///b"}

\* Gio.File.new_for_uri: no I/O, canonicalises the path of the URI
\* ("file:///" is the container of "ra" and "rb")
new_for_uri(uri) ==
  CASE uri = "file:///" -> "root"
    [] uri = "file:///b" -> "rb"
    [] OTHER -> "ra"

Modes == {"r", "rb", "w", "wb", "a", "ab"}
ModeChars ==
  [m \in Modes |->
     CASE m = "r" -> {"r"} [] m = "rb" -> {"r", "b"}
       [] m = "w" -> {"w"} [] m = "wb" -> {"w", "b"}
       [] m = "a" -> {"a"} [] m = "ab" -> {"a", "b"}]
\* the test  'c' in mode
InMode(c, m) == m \in Modes /\ c \in ModeChars[m]

\* handle objects: None, the GFileInputStream of gfile.read(), the
\* GFileIOStream of open_readwrite/create_readwrite and its two streams
Handles == {"istream", "iostream", "io_in", "io_out"}
None == "None"

SEEK_SET == 0
SEEK_CUR == 1
SEEK_END == 2

Min(a, b) == IF a < b THEN a ELSE b
Take(s, n) == SubSeq(s, 1, Min(n, Len(s)))
Drop(s, n) == SubSeq(s, n + 1, Len(s))
Zeros(n) == [i \in 1..n |-> 0]

VARIABLES
  fs,        \* backend: resource -> [exists, data]
  target,    \* backend: the resource the stream's handles refer to
  cursor,    \* backend: file offset shared by the handles of the stream
  released,  \* backend: handle -> number of close() calls received
  layer,     \* "none" (no stream yet), "raw" (GioFileAdapter), "utf8"
  mode,      \* GioFileAdapter.mode
  size,      \* GioFileAdapter.size
  gfd,       \* GioFileAdapter.gfd
  gin,       \* GioFileAdapter.gin
  gout,      \* GioFileAdapter.gout
  closed,    \* io.IOBase closed flag of the GioFileAdapter
  script,    \* the caller: what it does next when it follows a script
  listing,   \* the generator object returned by GioFileSystem.listdir()
  codec,     \* the string handed to safe() / unsafe() and what came back
  last       \* the last call made by the caller and what it got back

vars == <<fs, target, cursor, released, layer, mode, size,
          gfd, gin, gout, closed, script, listing, codec, last>>
backend == <<fs, target, cursor, released>>
adapter == <<layer, mode, size, gfd, gin, gout, closed>>

Absent == [exists |-> FALSE, data |-> <<>>]
File(d) == [exists |-> TRUE, data |-> d]

\* what the caller observes of one call
Result(op, outcome, num, bytes, lines, calls, wasClosed) ==
  [op |-> op, outcome |-> outcome, num |-> num, bytes |-> bytes,
   lines |-> lines, calls |-> calls, wasClosed |-> wasClosed]
\* a call that returns None, or raises, yields no number
NoNum == 0 - 1

\* one backend primitive invoked on a handle / on resources
Call(prim, a, b) == <<prim, a, b>>

\* the data behind the stream's handles
Data == fs[target].data

\* the backend state with the stream's data replaced by d
SetData(d) == fs' = [fs EXCEPT ![target] = File(d)]

\* a backend handle accepts I/O until its first close()
IsOpen(h) == h \in Handles /\ released[h] = 0

InitContents == {<<0>>, <<NL, 0>>}

\* a caller that follows no script: it may make any call at any time
Free == [pc |-> "free", b |-> <<>>, n |-> 0, old |-> <<>>]

\* no listdir() generator exists
NoListing == [state |-> "none", url |-> "", reported |-> <<>>,
              pending |-> <<>>, yielded |-> <<>>]
\* no safe() / unsafe() call is under way
NoCodec == [pc |-> "none", arg |-> <<>>, val |-> <<>>, out |-> <<>>]

Init ==
  /\ script = Free
  /\ listing = NoListing
  /\ codec = NoCodec
  /\ fs \in [Res -> {Absent} \cup {File(d) : d \in InitContents}]
  /\ fs["rb"] = Absent
  /\ target = "ra"
  /\ cursor = 0
  /\ released = [h \in Handles |-> 0]
  /\ layer = "none"
  /\ mode = "r"
  /\ size = 0
  /\ gfd = None /\ gin = None /\ gout = None
  /\ closed = FALSE
  /\ last = Result("init", "ok", NoNum, <<>>, <<>>, <<>>, FALSE)

\* ------------------------------------------------- GioFileAdapter.__init__
\* lines 20-23: the size is queried unless the mode has the write flag
NeedsQueryInfo(m) == ~InMode("w", m)

\* lines 20-28: the size cached at open
\* (variant: the size of the backend taken in every mode)
InitialSizeMut(m, r) == Len(fs[r].data)
InitialSize(m, r) == IF InMode("w", m) THEN 0 ELSE Len(fs[r].data)

\* lines 46-47: append mode seeks to the end of the data
\* (variant: the seek to the end left out)
InitialCursorMut(m, len) == 0
InitialCursor(m, len) == IF InMode("a", m) THEN len ELSE 0

\* lines 29-30 and 235-236: a GLib.GError of the backend becomes an IOError
\* (variant: the GLib.GError let through)
OpenErrorMut == "GError"
OpenError == "IOError"

\* lines 36-42: the content of the resource f once the handle is acquired:
\* read() and open_readwrite() leave it alone, create_readwrite() makes an
\* empty resource
\* (variant: an existing resource emptied when opened for writing)
OpenedDataMut(m, f) == IF InMode("r", m) THEN f.data ELSE <<>>
OpenedData(m, f) == IF f.exists THEN f.data ELSE <<>>

\* lines 232-234: the object GioFileSystem.open returns
OpenLayer(m) == IF InMode("b", m) THEN "raw" ELSE "utf8"

\* GioFileSystem.open(uri, mode); failAt names the backend call that fails
\* by itself (0: none, 1: query_info, 2: the acquisition, 3: the seek)
Open(uri, m, failAt) ==
  LET r == new_for_uri(uri)
      qi == IF NeedsQueryInfo(m) THEN <<Call("query_info", r, "")>> ELSE <<>>
      qiFails == NeedsQueryInfo(m) /\ (~fs[r].exists \/ failAt = 1)
      acq == IF InMode("r", m)
               THEN <<Call("read", r, "")>>
               ELSE <<Call("query_exists", r, ""),
                      Call(IF fs[r].exists THEN "open_readwrite"
                                           ELSE "create_readwrite", r, "")>>
      acqFails == (InMode("r", m) /\ ~fs[r].exists) \/ failAt = 2
      sk == IF InMode("a", m) THEN <<Call("seek", "iostream", "")>> ELSE <<>>
      skFails == InMode("a", m) /\ failAt = 3
      Fail(calls) ==
        /\ last' = Result("open", OpenError, NoNum, <<>>, <<>>, calls, FALSE)
        /\ UNCHANGED <<backend, adapter>>
  IN
  /\ layer = "none"
  /\ failAt \in {0} \cup (IF NeedsQueryInfo(m) THEN {1} ELSE {})
                  \cup {2} \cup (IF InMode("a", m) THEN {3} ELSE {})
  /\ IF qiFails THEN Fail(qi)
     ELSE IF acqFails THEN Fail(qi \o acq)
     ELSE IF skFails THEN Fail(qi \o acq \o sk)
     ELSE
       /\ fs' = [fs EXCEPT ![r] = File(OpenedData(m, fs[r]))]
       /\ target' = r
       /\ cursor' = InitialCursor(m, Len(fs[r].data))
       /\ released' = [h \in Handles |-> 0]
       /\ layer' = OpenLayer(m)
       /\ mode' = m
       /\ size' = InitialSize(m, r)
       /\ IF InMode("r", m)
            THEN gin' = "istream" /\ gfd' = "istream" /\ gout' = None
            ELSE gfd' = "iostream" /\ gin' = "io_in" /\ gout' = "io_out"
       /\ closed' = FALSE
       /\ last' = Result("open", "ok", NoNum, <<>>, <<>>,
                         qi \o acq \o sk, FALSE)

\* ---------------------------------------------------- GioFileAdapter.close
\* lines 116-121: the handles close() releases, in order
\* (variant: gfd closed even when it is gin)
CloseSequenceMut ==
  (IF gin # None THEN <<gin>> ELSE <<>>)
    \o (IF gout # None THEN <<gout>> ELSE <<>>) \o <<gfd>>
CloseSequence ==
  (IF gin # None THEN <<gin>> ELSE <<>>)
    \o (IF gout # None THEN <<gout>> ELSE <<>>)
    \o (IF gfd # gin THEN <<gfd>> ELSE <<>>)

Count(seq, h) == Cardinality({i \in 1..Len(seq) : seq[i] = h})

\* close(), also through GioUTF8FileAdapter.close and through __exit__ of
\* either layer; failAt = k > 0: the k-th handle fails to close (the backend
\* still marks that handle closed)
CloseCall(op, failAt) ==
  LET seq == CloseSequence
      done == IF failAt = 0 THEN seq ELSE SubSeq(seq, 1, failAt)
  IN
  /\ layer # "none"
  /\ failAt \in 0..Len(seq)
  /\ failAt > 0 => IsOpen(seq[failAt])
  /\ \A i \in 1..Len(seq) : released[seq[i]] + Count(seq, seq[i]) <= MaxClose
  /\ closed' = TRUE
  /\ released' = [h \in Handles |-> released[h] + Count(done, h)]
  /\ last' = Result(op, IF failAt = 0 THEN "ok" ELSE "GError", NoNum,
                    <<>>, <<>>,
                    [i \in 1..Len(done) |-> Call("close", done[i], "")],
                    closed)
  /\ UNCHANGED <<fs, target, cursor, layer, mode, size, gfd, gin, gout>>

Close(failAt) == CloseCall("close", failAt)

\* lines 126-127 and 206-207: leaving a with-scope, whether its body
\* returned or raised, calls close(); an exception of the body is not
\* swallowed
Exit(failAt) == CloseCall("__exit__", failAt)

\* --------------------------------------------- GioFileAdapter, stream calls
\* GInputStream.read_bytes(count) at offset pos of data d
ReadBytes(d, pos, count) ==
  IF pos >= Len(d) THEN <<>> ELSE SubSeq(d, pos + 1, Min(pos + count, Len(d)))

\* GOutputStream.write_all(b) at offset pos of data d, holes filled with 0
WriteAt(d, pos, b) ==
  LET padded == IF pos > Len(d) THEN d \o Zeros(pos - Len(d)) ELSE d
  IN Take(padded, pos) \o b \o Drop(padded, pos + Len(b))

\* GSeekable.truncate(n) of data d
Resize(d, n) == IF n <= Len(d) THEN Take(d, n) ELSE d \o Zeros(n - Len(d))

\* lines 58-59: the number of bytes read(size) asks the backend for
\* (variant: a negative size read as the current length of the data)
ReadSizeMut(n) == IF n < 0 THEN Len(Data) ELSE n
ReadSize(n) == IF n < 0 THEN size ELSE n

\* bytes.decode("utf-8") / str.encode("utf-8") on one-byte code points
ValidUtf8(bs) == \A i \in 1..Len(bs) : bs[i] < 128
utf8_decode(bs) == [i \in 1..Len(bs) |-> bs[i]]
utf8_encode(txt) == [i \in 1..Len(txt) |-> txt[i]]

\* os.linesep, the one character "\n" on POSIX
linesep == NL

\* bytes.split(sep) / str.split(sep) for a one-element separator
RECURSIVE Split(_, _)
Split(s, sep) ==
  IF \E i \in 1..Len(s) : s[i] = sep
    THEN LET i == CHOOSE k \in 1..Len(s) :
                    s[k] = sep /\ \A j \in 1..(k - 1) : s[j] # sep
         IN <<SubSeq(s, 1, i - 1)>> \o Split(SubSeq(s, i + 1, Len(s)), sep)
    ELSE <<s>>

\* line 72: GioFileAdapter.readlines on the bytes readall() returned
\* (variant: no chunk made of what follows the last newline when that is
\* empty)
RawLinesMut(bs) ==
  LET parts == Split(bs, NL)
      n == IF parts[Len(parts)] = <<>> THEN Len(parts) - 1 ELSE Len(parts)
  IN [i \in 1..n |-> parts[i] \o <<NL>>]
RawLines(bs) == LET parts == Split(bs, NL)
                IN [i \in 1..Len(parts) |-> parts[i] \o <<NL>>]

\* lines 154-157: GioUTF8FileAdapter.readlines on the text readall() returned
\* (variant: the last line never removed)
TextLinesMut(txt) ==
  LET parts == Split(txt, linesep)
  IN [i \in 1..Len(parts) |-> parts[i] \o <<NL>>]
TextLines(txt) ==
  LET parts == Split(txt, linesep)
      lines == [i \in 1..Len(parts) |-> parts[i] \o <<NL>>]
  IN IF lines[Len(lines)] = <<NL>> THEN SubSeq(lines, 1, Len(lines) - 1)
                                   ELSE lines

\* read(n) / readall() / readlines() of either layer; inj: the backend fails
ReadCall(op, n, inj) ==
  LET fails == ~IsOpen(gin) \/ inj
      got == IF fails THEN <<>> ELSE ReadBytes(Data, cursor, ReadSize(n))
      outcome == IF fails THEN "GError"
                 ELSE IF layer = "utf8" /\ ~ValidUtf8(got)
                   THEN "UnicodeDecodeError" ELSE "ok"
      value == IF outcome # "ok" THEN <<>>
               ELSE IF layer = "utf8" THEN utf8_decode(got) ELSE got
  IN
  /\ layer # "none"
  /\ cursor' = cursor + Len(got)
  /\ last' = Result(op, outcome, NoNum,
                    IF op = "readlines" THEN <<>> ELSE value,
                    IF op = "readlines" /\ outcome = "ok"
                      THEN (IF layer = "utf8" THEN TextLines(value)
                                              ELSE RawLines(value))
                      ELSE <<>>,
                    <<Call("read_bytes", gin, "")>>, closed)
  /\ UNCHANGED <<fs, target, released, adapter>>

Read(n, inj) == ReadCall("read", n, inj)
ReadAll(inj) == ReadCall("readall", 0 - 1, inj)
ReadLines(inj) == ReadCall("readlines", 0 - 1, inj)

\* lines 103-108: what write() does with the pair write_all returned
\* (variant: the success flag of write_all ignored)
WriteReturnMut(res) == [outcome |-> "ok", num |-> res[2]]
WriteReturn(res) ==
  IF ~res[1] THEN [outcome |-> "IOError", num |-> NoNum]
             ELSE [outcome |-> "ok", num |-> res[2]]

\* GioFileAdapter.write(b) reached through write()/writelines() of either
\* layer.  inj: "none", "gerror" (write_all raises GLib.GError) or "short"
\* (write_all reports failure after k < len(b) bytes)
WriteCall(op, b, inj, k) ==
  LET raises == ~IsOpen(gout) \/ inj = "gerror"
      res == IF inj = "short" THEN <<FALSE, k>> ELSE <<TRUE, Len(b)>>
      ret == WriteReturn(res)
  IN
  /\ layer # "none"
  /\ cursor + Len(b) <= MaxLen
  /\ IF inj = "short" THEN k < Len(b) ELSE k = 0
  /\ IF gout = None
       THEN /\ last' = Result(op, "AttributeError", NoNum, <<>>, <<>>, <<>>,
                              closed)
            /\ UNCHANGED <<backend, adapter>>
     ELSE IF raises
       THEN /\ last' = Result(op, "GError", NoNum, <<>>, <<>>,
                              <<Call("write_all", gout, "")>>, closed)
            /\ UNCHANGED <<backend, adapter>>
     ELSE /\ SetData(WriteAt(Data, cursor, Take(b, res[2])))
          /\ cursor' = cursor + res[2]
          /\ last' = Result(op, ret.outcome,
                            IF op = "write" THEN ret.num ELSE NoNum,
                            b, <<>>, <<Call("write_all", gout, "")>>, closed)
          /\ UNCHANGED <<target, released, adapter>>

\* write(b): the text layer encodes first (lines 190-191)
Write(b, inj, k) ==
  WriteCall("write", IF layer = "utf8" THEN utf8_encode(b) ELSE b, inj, k)

RECURSIVE Join(_)
Join(lines) == IF lines = <<>> THEN <<>> ELSE Head(lines) \o Join(Tail(lines))

\* writelines(lines): lines 110-111; the text layer appends os.linesep to
\* each line and encodes it (lines 194-198)
WriteLines(lines, inj, k) ==
  WriteCall("writelines",
            IF layer = "utf8"
              THEN Join([i \in 1..Len(lines) |->
                           utf8_encode(lines[i] \o <<NL>>)])
              ELSE Join(lines),
            inj, k)

\* seek(offset, whence): lines 74-80, on gfd
Seek(offset, whence, inj) ==
  LET base == CASE whence = SEEK_SET -> 0
                [] whence = SEEK_CUR -> cursor
                [] whence = SEEK_END -> Len(Data)
      pos == base + offset
      fails == ~IsOpen(gfd) \/ inj \/ pos < 0
  IN
  /\ layer # "none"
  /\ pos <= MaxLen
  /\ cursor' = IF fails THEN cursor ELSE pos
  /\ last' = Result("seek", IF fails THEN "GError" ELSE "ok", NoNum, <<>>,
                    <<>>, <<Call("seek", gfd, "")>>, closed)
  /\ UNCHANGED <<fs, target, released, adapter>>

\* GSeekable.tell of gin: the offset; on a closed handle whatever the
\* backend finds behind the stale descriptor (it reports no error)
TellValues == IF IsOpen(gin) THEN {cursor} ELSE 0..MaxLen

\* tell(): lines 85-86
Tell(t) ==
  /\ layer # "none"
  /\ t \in TellValues
  /\ last' = Result("tell", "ok", t, <<>>, <<>>, <<Call("tell", gin, "")>>,
                    closed)
  /\ UNCHANGED <<backend, adapter>>

\* truncate(size=None): lines 91-94; omitted: no size given, t is what
\* tell() returns
Truncate(omitted, n, t, inj) ==
  LET sz == IF omitted THEN t ELSE n
      fails == ~IsOpen(gfd) \/ gfd = "istream" \/ inj
      calls == (IF omitted THEN <<Call("tell", gin, "")>> ELSE <<>>)
                 \o <<Call("truncate", gfd, "")>>
  IN
  /\ layer # "none"
  /\ IF omitted THEN t \in TellValues /\ n = 0 ELSE t = 0
  /\ IF fails
       THEN /\ last' = Result("truncate", "GError", NoNum, <<>>, <<>>, calls,
                              closed)
            /\ UNCHANGED <<backend, adapter>>
       ELSE /\ SetData(Resize(Data, sz))
            /\ last' = Result("truncate", "ok", NoNum, <<>>, <<>>, calls,
                              closed)
            /\ UNCHANGED <<target, cursor, released, adapter>>

\* the (offset, whence) the caller seeks with and whether the backend fails
SeekInputs ==
  {<<0, SEEK_SET, FALSE>>, <<1, SEEK_SET, FALSE>>, <<MaxLen, SEEK_SET, FALSE>>,
   <<0 - 1, SEEK_SET, FALSE>>, <<1, SEEK_CUR, FALSE>>,
   <<0 - 1, SEEK_CUR, FALSE>>, <<0, SEEK_END, FALSE>>,
   <<0 - 1, SEEK_END, FALSE>>, <<0, SEEK_SET, TRUE>>}

\* the buffers and line lists the caller writes
WriteInputs == {<<>>, <<0>>, <<NL>>}
LineInputs == {<<>>, <<<<0>>>>, <<<<NL>>, <<>>>>}

\* what the backend does to a write_all: accept it, raise, or report a short
\* write after k bytes; a raise is tried with one buffer only, its effect
\* being the same for all
WriteFaults(bufs) ==
  {<<b, "none", 0>> : b \in bufs}
    \cup {<<b, "short", 0>> : b \in bufs}
    \cup {<<b, "short", 1>> : b \in bufs}
    \cup {<<CHOOSE b \in bufs : b # <<>>, "gerror", 0>>}

\* the sizes read(n) is called with and whether the backend fails the call
ReadInputs == {<<n, FALSE>> : n \in (0 - 1)..MaxLen} \cup {<<1, TRUE>>}

\* truncate(): no size, or a size, and whether the backend fails the call
TruncateInputs ==
  {<<TRUE, 0, t, FALSE>> : t \in 0..MaxLen}
    \cup {<<FALSE, n, 0, FALSE>> : n \in 0..MaxLen}
    \cup {<<FALSE, 0, 0, TRUE>>}

\* a Python bool as the caller gets it: True is 1, False is 0
Bool(x) == IF x THEN 1 ELSE 0

\* line 50
ReadableValue == TRUE
\* line 53: 'w' in self.mode
\* (variant: the append flag counted as well)
WritableValueMut(m) == InMode("w", m) \/ InMode("a", m)
WritableValue(m) == InMode("w", m)

\* readable() of either layer; nothing is asked of the backend and the
\* closed flag is not looked at
Readable ==
  /\ layer # "none"
  /\ last' = Result("readable", "ok", Bool(ReadableValue), <<>>, <<>>, <<>>,
                    closed)
  /\ UNCHANGED <<backend, adapter>>

\* writable() of either layer
Writable ==
  /\ layer # "none"
  /\ last' = Result("writable", "ok", Bool(WritableValue(mode)), <<>>, <<>>,
                    <<>>, closed)
  /\ UNCHANGED <<backend, adapter>>

\* ------------------------------------------------------------ GioFileSystem
\* lines 257-258, 279-280, 286-287, 306-307: except GLib.GError -> IOError
FacadeError == "IOError"

\* exists(url): lines 253-258; query_exists reports no error
Exists(url) ==
  LET r == new_for_uri(url)
  IN
  /\ last' = Result("exists", "ok", IF fs[r].exists THEN 1 ELSE 0, <<>>, <<>>,
                    <<Call("query_exists", r, "")>>, FALSE)
  /\ UNCHANGED <<backend, adapter>>

\* getsize(url): lines 299-307
GetSize(url, inj) ==
  LET r == new_for_uri(url)
      fails == ~fs[r].exists \/ inj
  IN
  /\ last' = Result("getsize", IF fails THEN FacadeError ELSE "ok",
                    IF fails THEN NoNum ELSE Len(fs[r].data), <<>>, <<>>,
                    <<Call("query_info", r, "")>>, FALSE)
  /\ UNCHANGED <<backend, adapter>>

\* unlink(url): lines 282-287
Unlink(url, inj) ==
  LET r == new_for_uri(url)
      fails == ~fs[r].exists \/ inj
  IN
  /\ last' = Result("unlink", IF fails THEN FacadeError ELSE "ok", NoNum,
                    <<>>, <<>>, <<Call("delete", r, "")>>, FALSE)
  /\ IF fails THEN UNCHANGED <<backend, adapter>>
     ELSE /\ fs' = [fs EXCEPT ![r] = Absent]
          /\ UNCHANGED <<target, cursor, released, adapter>>

\* line 277: Gio.File.equal compares the two resolved files
\* (variant: the URL strings compared instead of the files)
SameFileMut(old_url, new_url) == old_url = new_url
SameFile(old_url, new_url) == new_for_uri(old_url) = new_for_uri(new_url)

\* rename(old_url, new_url): lines 273-280; the move does not overwrite
\* (Gio.FileCopyFlags.NONE)
Rename(old_url, new_url, inj) ==
  LET old == new_for_uri(old_url)
      new == new_for_uri(new_url)
      fails == ~fs[old].exists \/ fs[new].exists \/ inj
  IN
  IF SameFile(old_url, new_url)
    THEN /\ last' = Result("rename", "AssertionError", NoNum, <<>>, <<>>,
                           <<>>, FALSE)
         /\ UNCHANGED <<backend, adapter>>
    ELSE /\ last' = Result("rename", IF fails THEN FacadeError ELSE "ok",
                           NoNum, <<>>, <<>>, <<Call("move", old, new)>>,
                           FALSE)
         /\ IF fails THEN UNCHANGED <<backend, adapter>>
            ELSE /\ fs' = [fs EXCEPT ![new] = fs[old], ![old] = Absent]
                 /\ UNCHANGED <<target, cursor, released, adapter>>

\* the names bound inside copy(self, old_url, new_url) and at module level
CopyLocals == {"self", "old_url", "new_url", "old", "new"}
ModuleGlobals == {"io", "logging", "os", "urllib", "Gio", "GLib", "logger",
                  "GioFileAdapter", "GioUTF8FileAdapter", "GioFileSystem"}
\* lines 321 and 322: the name each Gio.File.new_for_uri(...) is given
CopySourceName == "url"
CopyDestName == "url"

\* the value of a name of copy(): its arguments, or "" when it is unbound
CopyValue(name, old_url, new_url) ==
  CASE name = "old_url" -> old_url
    [] name = "new_url" -> new_url
    [] OTHER -> ""

\* copy(old_url, new_url): lines 319-325
Copy(old_url, new_url, inj) ==
  LET bound == {CopySourceName, CopyDestName} \subseteq
                 (CopyLocals \cup ModuleGlobals)
      src == CopyValue(CopySourceName, old_url, new_url)
      dst == CopyValue(CopyDestName, old_url, new_url)
      fails == src = "" \/ dst = "" \/ ~fs[new_for_uri(src)].exists
                 \/ fs[new_for_uri(dst)].exists \/ inj
  IN
  IF ~bound
    THEN /\ last' = Result("copy", "NameError", NoNum, <<>>, <<>>, <<>>,
                           FALSE)
         /\ UNCHANGED <<backend, adapter>>
    ELSE /\ last' = Result("copy", IF fails THEN FacadeError ELSE "ok", NoNum,
                           <<>>, <<>>,
                           <<Call("copy", new_for_uri(src), new_for_uri(dst))>>,
                           FALSE)
         /\ IF fails THEN UNCHANGED <<backend, adapter>>
            ELSE /\ fs' = [fs EXCEPT ![new_for_uri(dst)] = fs[new_for_uri(src)]]
                 /\ UNCHANGED <<target, cursor, released, adapter>>

\* --------------------------------------------------- GioFileSystem.listdir
\* the children of the container, as the backend holds them
Children == {r \in Res : fs[r].exists}
\* GFileInfo.get_name of a child
ChildName(r) == IF r = "ra" THEN "a" ELSE "b"
\* the orders in which the backend may hand out a set of children
Orders(S) ==
  {o \in [1..Cardinality(S) -> S] : \A i, j \in DOMAIN o : o[i] = o[j] => i = j}

\* lines 267-268: f.get_child(child.get_name()).get_uri()
\* (variant: the URI of the container itself, get_child left out)
ChildUriMut(url, name) == url
ChildUri(url, name) == url \o name

\* lines 260-271: listdir() is a generator function, the call itself runs
\* none of its body
Listdir(url) ==
  /\ listing' = [state |-> "created", url |-> url, reported |-> <<>>,
                 pending |-> <<>>, yielded |-> <<>>]
  /\ last' = Result("listdir", "ok", NoNum, <<>>, <<>>, <<>>, FALSE)
  /\ UNCHANGED <<backend, adapter, script, codec>>

\* the generator stops: by the end of the enumeration, or by the IOError
\* that lines 269-271 make of a GLib.GError
ListingEnds(outcome, calls) ==
  /\ listing' = [listing EXCEPT !.state = "done", !.pending = <<>>]
  /\ last' = Result("next", outcome, NoNum, <<>>, <<>>, calls, FALSE)

\* lines 266-268: one turn of the loop, the enumerator hands out the child c
ListingYields(c, rest, calls) ==
  /\ listing' = [listing EXCEPT
                   !.state = "running",
                   !.reported = Append(@, ChildName(c)),
                   !.pending = rest,
                   !.yielded = Append(@, ChildUri(listing.url, ChildName(c)))]
  /\ last' = Result("next", "ok", NoNum, <<>>, <<>>, calls, FALSE)

\* next() on the generator.  The first next() runs lines 262-265: the
\* enumeration of the children as they are then, in the order o of the
\* backend; inj makes the backend fail.
ListdirNext(o, inj) ==
  /\ listing.state # "none"
  /\ UNCHANGED <<backend, adapter, script, codec>>
  /\ CASE listing.state = "created" ->
            LET f == new_for_uri(listing.url)
                calls == <<Call("enumerate_children", f, "")>>
            IN
            /\ o \in Orders(Children)
            /\ IF inj \/ f # "root"
                 THEN ListingEnds(FacadeError, calls)
                 ELSE IF o = <<>>
                   THEN ListingEnds("StopIteration", calls)
                   ELSE ListingYields(o[1], Tail(o), calls)
       [] listing.state = "running" ->
            /\ o = <<>>
            /\ IF inj
                 THEN ListingEnds(FacadeError, <<>>)
                 ELSE IF listing.pending = <<>>
                   THEN ListingEnds("StopIteration", <<>>)
                   ELSE ListingYields(Head(listing.pending),
                                      Tail(listing.pending), <<>>)
       [] listing.state = "done" ->
            /\ o = <<>> /\ ~inj
            /\ ListingEnds("StopIteration", <<>>)

\* ------------------------------------------ GioFileSystem.safe / unsafe
\* strings are sequences of characters
PathChars == {"z", "/", ":", "%", "2", "5"}
Paths == UNION {[1..n -> PathChars] : n \in 0..MaxPath}
SchemeSep == <<":", "/", "/">>
FilePrefix == <<"f", "i", "l", "e", ":", "/", "/">>

\* sub in s
Contains(s, sub) ==
  \E i \in 0..(Len(s) - Len(sub)) : SubSeq(s, i + 1, i + Len(sub)) = sub
\* s.startswith(pre)
StartsWith(s, pre) == Len(s) >= Len(pre) /\ SubSeq(s, 1, Len(pre)) = pre

\* urllib.parse.quote(s) with its default safe="/": letters, digits and
\* "_.-~" stay, every other character becomes its percent escape
Unreserved == {"z", "f", "i", "l", "e", "A", "2", "3", "5"}
PercentEscape(c) ==
  CASE c = ":" -> <<"%", "3", "A">>
    [] c = "%" -> <<"%", "2", "5">>
\* (variant: the percent sign left as it is)
QuoteCharMut(c) ==
  IF c \in Unreserved \cup {"/", "%"} THEN <<c>> ELSE PercentEscape(c)
QuoteChar(c) == IF c \in Unreserved \cup {"/"} THEN <<c>> ELSE PercentEscape(c)
RECURSIVE quote(_)
quote(s) == IF s = <<>> THEN <<>> ELSE QuoteChar(Head(s)) \o quote(Tail(s))

\* urllib.parse.unquote(s): every "%" followed by two hexadecimal digits
\* becomes the character of that code, any other "%" stays; a code that is
\* no UTF-8 on its own becomes U+FFFD
HexDigits == {"2", "3", "5", "A", "e", "f"}
HexVal(c) ==
  CASE c = "2" -> 2 [] c = "3" -> 3 [] c = "5" -> 5
    [] c = "A" -> 10 [] c = "e" -> 14 [] c = "f" -> 15
Chr(code) ==
  CASE code = 34 -> "\"" [] code = 35 -> "#" [] code = 37 -> "%"
    [] code = 42 -> "*" [] code = 46 -> "." [] code = 47 -> "/"
    [] code = 50 -> "2" [] code = 51 -> "3" [] code = 53 -> "5"
    [] code = 58 -> ":" [] code = 62 -> ">" [] code = 63 -> "?"
    [] code = 82 -> "R" [] code = 83 -> "S" [] code = 85 -> "U"
    [] code = 90 -> "Z" [] code = 94 -> "^" [] code = 95 -> "_"
    [] OTHER -> "U+FFFD"
RECURSIVE unquote(_)
unquote(s) ==
  IF s = <<>> THEN <<>>
  ELSE IF /\ Head(s) = "%" /\ Len(s) >= 3
          /\ s[2] \in HexDigits /\ s[3] \in HexDigits
    THEN <<Chr(16 * HexVal(s[2]) + HexVal(s[3]))>> \o unquote(Drop(s, 3))
    ELSE <<Head(s)>> \o unquote(Tail(s))

\* lines 215 and 221: the test  "://" in uri
\* (variant: only the file scheme is taken for a URI)
IsUriMut(uri) == StartsWith(uri, FilePrefix)
IsUri(uri) == Contains(uri, SchemeSep)

\* lines 214-218
safe(uri) == IF ~IsUri(uri) THEN FilePrefix \o quote(uri) ELSE uri

\* lines 220-227: the value returned, or the Exception raised
unsafe(uri) ==
  IF ~IsUri(uri) THEN [outcome |-> "ok", val |-> uri]
  ELSE IF ~StartsWith(uri, FilePrefix)
    THEN [outcome |-> "Exception", val |-> <<>>]
    ELSE [outcome |-> "ok", val |-> unquote(Drop(uri, Len(FilePrefix)))]

\* a first call is made on the argument, a second one on what the first
\* returned; pc lists the calls made
CodecFrame == UNCHANGED <<backend, adapter, script, listing>>
CodecResult(op, outcome) ==
  last' = Result(op, outcome, NoNum, <<>>, <<>>, <<>>, FALSE)

SafeCall ==
  /\ codec.pc \in {"arg", "safe"}
  /\ codec' = IF codec.pc = "arg"
                THEN [codec EXCEPT !.pc = "safe", !.val = safe(codec.arg)]
                ELSE [codec EXCEPT !.pc = "safe,safe",
                                   !.out = safe(codec.val)]
  /\ CodecResult("safe", "ok")
  /\ CodecFrame

UnsafeCall ==
  /\ codec.pc \in {"arg", "safe"}
  /\ LET res == unsafe(IF codec.pc = "arg" THEN codec.arg ELSE codec.val)
     IN
     /\ codec' = IF codec.pc = "arg"
                   THEN [codec EXCEPT !.pc = "unsafe", !.val = res.val]
                   ELSE [codec EXCEPT !.pc = "safe,unsafe",
                                      !.out = res.val]
     /\ CodecResult("unsafe", res.outcome)
  /\ CodecFrame

\* a caller that follows no script leaves it alone, and so the generator and
\* the codec strings it does not use
NoScript == UNCHANGED <<script, listing, codec>>

\* the calls on one stream: open, then any stream calls
Next ==
  \/ \E u \in URIs, m \in Modes, f \in 0..3 : Open(u, m, f) /\ NoScript
  \/ \E f \in 0..3 : Close(f) /\ NoScript
  \/ \E f \in 0..3 : Exit(f) /\ NoScript
  \/ \E r \in ReadInputs : Read(r[1], r[2]) /\ NoScript
  \/ \E inj \in BOOLEAN : ReadAll(inj) /\ NoScript
  \/ \E inj \in BOOLEAN : ReadLines(inj) /\ NoScript
  \/ \E w \in WriteFaults(WriteInputs) : Write(w[1], w[2], w[3]) /\ NoScript
  \/ \E w \in WriteFaults(LineInputs) :
       WriteLines(w[1], w[2], w[3]) /\ NoScript
  \/ \E sk \in SeekInputs : Seek(sk[1], sk[2], sk[3]) /\ NoScript
  \/ \E t \in 0..MaxLen : Tell(t) /\ NoScript
  \/ \E tr \in TruncateInputs :
       Truncate(tr[1], tr[2], tr[3], tr[4]) /\ NoScript
  \/ Readable /\ NoScript
  \/ Writable /\ NoScript

Spec == Init /\ [][Next]_vars

\* the calls on the facade that open no stream
NextFacade ==
  \/ \E u \in URIs : Exists(u) /\ NoScript
  \/ \E u \in URIs, inj \in BOOLEAN : GetSize(u, inj) /\ NoScript
  \/ \E u \in URIs, inj \in BOOLEAN : Unlink(u, inj) /\ NoScript
  \/ \E o \in URIs, n \in URIs, inj \in BOOLEAN : Rename(o, n, inj) /\ NoScript
  \/ \E o \in URIs, n \in URIs, inj \in BOOLEAN : Copy(o, n, inj) /\ NoScript

InitFacade ==
  /\ script = Free
  /\ listing = NoListing
  /\ codec = NoCodec
  /\ fs \in [Res -> {Absent} \cup {File(d) : d \in InitContents}]
  /\ target = "ra"
  /\ cursor = 0
  /\ released = [h \in Handles |-> 0]
  /\ layer = "none"
  /\ mode = "r"
  /\ size = 0
  /\ gfd = None /\ gin = None /\ gout = None
  /\ closed = FALSE
  /\ last = Result("init", "ok", NoNum, <<>>, <<>>, <<>>, FALSE)

SpecFacade == InitFacade /\ [][NextFacade]_vars

\* the facade with listdir(): the children of the container change between
\* and during listings
ListUrls == {"file:///", "file:///a"}
AllOrders == UNION {Orders(S) : S \in SUBSET Res}

NextListdir ==
  \/ \E url \in ListUrls : Listdir(url)
  \/ \E o \in AllOrders, inj \in BOOLEAN : ListdirNext(o, inj)
  \/ \E u \in URIs : Unlink(u, FALSE) /\ NoScript
  \/ \E o \in URIs, n \in URIs : Rename(o, n, FALSE) /\ NoScript

SpecListdir == InitFacade /\ [][NextListdir]_vars

\* the state the stream variables have while no stream was opened
NoStream ==
  /\ target = "ra"
  /\ cursor = 0
  /\ released = [h \in Handles |-> 0]
  /\ layer = "none"
  /\ mode = "r"
  /\ size = 0
  /\ gfd = None /\ gin = None /\ gout = None
  /\ closed = FALSE

\* safe() and unsafe() applied to local paths and to file URIs
CodecInputs == Paths \cup {FilePrefix \o x : x \in Paths}
InitCodec ==
  /\ codec \in [pc : {"arg"}, arg : CodecInputs, val : {<<>>}, out : {<<>>}]
  /\ script = Free
  /\ listing = NoListing
  /\ fs = [r \in Res |-> Absent]
  /\ NoStream
  /\ last = Result("init", "ok", NoNum, <<>>, <<>>, <<>>, FALSE)

NextCodec ==
  \/ SafeCall
  \/ UnsafeCall

SpecCodec == InitCodec /\ [][NextCodec]_vars

\* ------------------------------------------------ the round-trip scenario
\* a caller that opens a resource that does not exist in write mode, writes
\* b, seeks to 0 and reads n bytes (n < 0: read() / read(-1) / readall())
InitRoundTrip ==
  /\ script \in [pc : {"open"}, b : Contents, n : (0 - 1)..MaxLen,
                  old : {<<>>}]
  /\ listing = NoListing
  /\ codec = NoCodec
  /\ fs \in [Res -> {Absent} \cup {File(d) : d \in InitContents}]
  /\ fs["rb"] = Absent
  /\ target = "ra"
  /\ cursor = 0
  /\ released = [h \in Handles |-> 0]
  /\ layer = "none"
  /\ mode = "r"
  /\ size = 0
  /\ gfd = None /\ gin = None /\ gout = None
  /\ closed = FALSE
  /\ last = Result("init", "ok", NoNum, <<>>, <<>>, <<>>, FALSE)

Then(pc) ==
  script' = [script EXCEPT !.pc = pc] /\ UNCHANGED <<listing, codec>>

RoundTripOpen ==
  /\ script.pc = "open"
  /\ \E u \in URIs, m \in {"w", "wb"} :
       ~fs[new_for_uri(u)].exists /\ Open(u, m, 0)
  /\ Then("write")
RoundTripWrite ==
  script.pc = "write" /\ Write(script.b, "none", 0) /\ Then("seek")
RoundTripSeek ==
  script.pc = "seek" /\ Seek(0, SEEK_SET, FALSE) /\ Then("read")
RoundTripRead ==
  script.pc = "read" /\ Read(script.n, FALSE) /\ Then("done")
RoundTripReadAll ==
  script.pc = "read" /\ script.n < 0 /\ ReadAll(FALSE) /\ Then("done")

NextRoundTrip ==
  \/ RoundTripOpen
  \/ RoundTripWrite
  \/ RoundTripSeek
  \/ RoundTripRead
  \/ RoundTripReadAll

SpecRoundTrip == InitRoundTrip /\ [][NextRoundTrip]_vars

\* an existing resource is opened for writing, written to and closed, with
\* or without a truncate() before the close; script.old is the content the
\* resource had, script.n becomes 1 when the caller truncates
InitOverwrite ==
  /\ script \in [pc : {"open"}, b : Contents, n : {0}, old : Contents]
  /\ listing = NoListing
  /\ codec = NoCodec
  /\ fs = [r \in Res |-> IF r = "ra" THEN File(script.old) ELSE Absent]
  /\ NoStream
  /\ last = Result("init", "ok", NoNum, <<>>, <<>>, <<>>, FALSE)

OverwriteOpen ==
  /\ script.pc = "open"
  /\ \E m \in {"w", "wb"} : Open("file:///a", m, 0)
  /\ Then("write")
OverwriteWrite ==
  script.pc = "write" /\ Write(script.b, "none", 0) /\ Then("close")
OverwriteTruncate ==
  /\ script.pc = "close" /\ script.n = 0
  /\ Truncate(TRUE, 0, cursor, FALSE)
  /\ script' = [script EXCEPT !.n = 1]
  /\ UNCHANGED <<listing, codec>>
OverwriteClose ==
  script.pc = "close" /\ Close(0) /\ Then("done")

NextOverwrite ==
  \/ OverwriteOpen
  \/ OverwriteWrite
  \/ OverwriteTruncate
  \/ OverwriteClose

SpecOverwrite == InitOverwrite /\ [][NextOverwrite]_vars

\* a resource is opened for reading and readlines() is called on the new
\* stream
LineContents == UNION {[1..n -> Byte] : n \in 0..MaxLine}
InitReadLines ==
  /\ script = [Free EXCEPT !.pc = "open"]
  /\ listing = NoListing
  /\ codec = NoCodec
  /\ \E c \in LineContents : fs = [r \in Res |-> IF r = "ra" THEN File(c)
                                                          ELSE Absent]
  /\ NoStream
  /\ last = Result("init", "ok", NoNum, <<>>, <<>>, <<>>, FALSE)

ReadLinesOpen ==
  /\ script.pc = "open"
  /\ \E m \in {"r", "rb"} : Open("file:///a", m, 0)
  /\ Then("readlines")
ReadLinesCall ==
  script.pc = "readlines" /\ ReadLines(FALSE) /\ Then("done")

NextReadLines ==
  \/ ReadLinesOpen
  \/ ReadLinesCall

SpecReadLines == InitReadLines /\ [][NextReadLines]_vars

\* ================================================================= claims
StreamOps == {"read", "readall", "readlines", "write", "writelines", "seek",
              "tell", "truncate"}
WriteModes == {"w", "wb", "a", "ab"}
Acquisitions == {"read", "open_readwrite", "create_readwrite"}
Prims(calls) == {calls[i][1] : i \in 1..Len(calls)}

\* every handle the stream holds has received a close()
AllReleased == \A h \in {gfd, gin, gout} \cap Handles : released[h] >= 1

\* C1: every read, readall, readlines, write, writelines, seek, tell and
\* truncate call made on a stream after close() fails with the stream-closed
\* error (ValueError) and makes no call on a backend handle.  Stated for the
\* streams whose close() went through all their handles.
C1_ClosedStreamRejectsCalls ==
  (last.op \in StreamOps /\ last.wasClosed /\ AllReleased)
    => (last.outcome = "ValueError" /\ last.calls = <<>>)

\* C2: opening a resource that does not exist in write mode or in append
\* mode succeeds when the backend does not fail: the resource is created and
\* an open stream holding a read-write handle is returned.
C2_WriteAppendCreate ==
  [][last'.op = "open" =>
     \A u \in URIs, m \in WriteModes :
       (~fs[new_for_uri(u)].exists /\ Open(u, m, 0))
         => /\ last'.outcome = "ok"
            /\ fs'[new_for_uri(u)].exists
            /\ layer' # "none" /\ ~closed'
            /\ gfd' = "iostream"]_vars

\* C3: opening a resource that does not exist in read mode fails with the
\* generic I/O error: no stream is returned, no backend handle is acquired
\* and the resource is not created.
C3_ReadMissingFails ==
  [][last'.op = "open" =>
     \A u \in URIs, m \in {"r", "rb"}, f \in 0..3 :
       (~fs[new_for_uri(u)].exists /\ Open(u, m, f))
         => /\ last'.outcome = "IOError"
            /\ layer' = "none"
            /\ gfd' = None /\ gin' = None /\ gout' = None
            /\ Prims(last'.calls) \cap Acquisitions = {}
            /\ fs' = fs]_vars

\* C3 witness: an open in read mode of a missing resource was refused after
\* the size query
C3_Witness ==
  /\ last.op = "open" /\ last.outcome = "IOError" /\ layer = "none"
  /\ \E r \in Res : ~fs[r].exists /\ last.calls = <<Call("query_info", r, "")>>

\* C4: right after a successful open in append mode of an existing resource
\* of size S, tell() returns S, and a first write of B returns with B at
\* offsets S..S+len(B)-1 and the first S bytes of the resource unchanged.
C4_AppendStartsAtEnd ==
  [][(last.op = "open" /\ last.outcome = "ok" /\ InMode("a", mode))
       => /\ \A t \in 0..MaxLen : Tell(t) => last'.num = Len(Data)
          /\ \A b \in WriteInputs :
               Write(b, "none", 0)
                 => /\ Take(Data', Len(Data)) = Data
                    /\ Drop(Data', Len(Data)) = b]_vars

\* C4 witness: a stream opened in append mode on a resource of one byte has
\* written one byte behind it
C4_Witness ==
  /\ InMode("a", mode) /\ size = 1
  /\ last.op = "write" /\ last.outcome = "ok" /\ last.bytes = <<NL>>
  /\ Len(Data) = 2 /\ Data[2] = NL /\ cursor = 2

\* C5 as stated: on a freshly created write-mode stream, after write(B) and
\* seek(0), a read from position 0 returns exactly B, the default read() /
\* read(-1) / readall() included.
C5_RoundTripAnyRead ==
  script.pc = "done"
    => /\ last.outcome = "ok"
       /\ (script.n < 0 \/ script.n >= Len(script.b)) => last.bytes = script.b

\* C5 amended: the read returns exactly B when it asks for n >= len(B) bytes;
\* read() / read(-1) / readall() ask for the cached size, which is 0 on a
\* stream opened in write mode, and return the empty byte string.
C5_RoundTripSizedRead ==
  script.pc = "done"
    => /\ last.outcome = "ok"
       /\ script.n >= Len(script.b) => last.bytes = script.b
       /\ script.n < 0 => last.bytes = <<>>

\* C5 witness: a non-empty B was written and read back whole
C5_Witness ==
  /\ script.pc = "done" /\ Len(script.b) > 0
  /\ script.n >= Len(script.b) /\ last.bytes = script.b

C7_NoBackendErrorEscapes == last.outcome # "GError"

\* the handles the stream acquired at open
Acquired == {gfd, gin, gout} \cap Handles

\* C8: a close() on an open stream that returns has released every handle
\* the stream holds exactly once, and nothing else.
C8_CloseReleasesOnce ==
  (last.op = "close" /\ ~last.wasClosed /\ last.outcome = "ok")
    => /\ \A h \in Acquired : released[h] = 1
       /\ \A h \in Handles \ Acquired : released[h] = 0
       /\ \A h \in Acquired : Count(last.calls, Call("close", h, "")) = 1

\* C8 witness: a read-only stream, whose input handle is the owning handle,
\* was closed
C8_Witness ==
  /\ last.op = "close" /\ ~last.wasClosed /\ last.outcome = "ok"
  /\ gin = gfd /\ gin = "istream" /\ released["istream"] = 1

\* C9: rename(old, new) with old and new resolving to the same resource
\* raises the assertion failure and invokes no backend move; otherwise the
\* backend move is invoked exactly once, with (old, new).
C9_RenameAssertsDistinct ==
  [][\A o \in URIs, n \in URIs, inj \in BOOLEAN :
       Rename(o, n, inj)
         => IF new_for_uri(o) = new_for_uri(n)
              THEN /\ last'.outcome = "AssertionError"
                   /\ last'.calls = <<>>
                   /\ fs' = fs
              ELSE /\ last'.calls = <<Call("move", new_for_uri(o),
                                           new_for_uri(n))>>
                   /\ last'.outcome \in {"ok", "IOError"}]_vars

\* C9 witness: a rename onto the same resource was refused by the assertion
C9_Witness ==
  last.op = "rename" /\ last.outcome = "AssertionError" /\ last.calls = <<>>

\* C10: copy(old, new) invokes the backend copy from the resource of old to
\* the resource of new, and when these differ and the copy succeeds the
\* resource at new has the content of the resource at old.
C10_CopyUsesBothUris ==
  [][\A o \in URIs, n \in URIs, inj \in BOOLEAN :
       Copy(o, n, inj)
         => /\ last'.calls = <<Call("copy", new_for_uri(o), new_for_uri(n))>>
            /\ (last'.outcome = "ok" /\ new_for_uri(o) # new_for_uri(n))
                 => fs'[new_for_uri(n)] = fs[new_for_uri(o)]]_vars

\* C11: a listing yields one child URI per child the backend enumeration
\* hands out, in that order, without duplicate or omission, and then ends;
\* the enumeration is made by the listing itself when it starts, over the
\* children the container has at that moment.
C11_ListdirYieldsEachChildOnce ==
  [][last'.op = "next" =>
       /\ Len(listing'.yielded) = Len(listing'.reported)
       /\ \A i \in DOMAIN listing'.yielded :
            /\ ChildName(new_for_uri(listing'.yielded[i])) = listing'.reported[i]
            /\ \A j \in DOMAIN listing'.yielded :
                 listing'.yielded[i] = listing'.yielded[j] => i = j
       /\ (listing.state = "created" /\ last'.outcome # "IOError")
            => {listing'.reported[i] : i \in DOMAIN listing'.reported}
                 \cup {ChildName(listing'.pending[i]) :
                         i \in DOMAIN listing'.pending}
               = {ChildName(c) : c \in Children}
       /\ last'.outcome = "StopIteration" => listing'.pending = <<>>
       /\ (last'.outcome = "StopIteration" /\ listing.state = "running")
            => listing.pending = <<>>]_vars

\* C11 witness: a second listing, made after a child was removed, has
\* yielded the one child left and ended
C11_Witness ==
  /\ listing.state = "done" /\ last.op = "next"
  /\ last.outcome = "StopIteration"
  /\ listing.yielded = <<"file:///b">>
  /\ Children = {"rb"}

\* C12 as stated: for every local path p, also one that holds "://",
\* unsafe(safe(p)) returns p.
C12_RoundTripAnyPath ==
  (codec.pc = "safe,unsafe" /\ codec.arg \in Paths)
    => (last.outcome = "ok" /\ codec.out = codec.arg)

\* C12 amended: for every local path p that does not hold "://",
\* unsafe(safe(p)) returns p; a path that holds "://" is taken for a URI,
\* safe() returns it as it is and unsafe() raises on it unless it starts
\* with "file://".
C12_RoundTripPlainPath ==
  (codec.pc = "safe,unsafe" /\ codec.arg \in Paths)
    => IF ~Contains(codec.arg, SchemeSep)
         THEN last.outcome = "ok" /\ codec.out = codec.arg
         ELSE codec.val = codec.arg /\ last.outcome = "Exception"

\* C12 witness: a path with a percent sign in front of two digits and a
\* colon came back from the round trip
C12_Witness ==
  /\ codec.pc = "safe,unsafe" /\ last.outcome = "ok"
  /\ codec.arg = <<"%", "2", ":">>
  /\ codec.val = FilePrefix \o <<"%", "2", "5", "2", "%", "3", "A">>
  /\ codec.out = codec.arg

\* C13: safe() returns every string that holds "://" as it is, and
\* safe(safe(x)) = safe(x) for every x.
C13_SafeIdempotent ==
  /\ (codec.pc \in {"safe", "safe,safe", "safe,unsafe"}
        /\ Contains(codec.arg, SchemeSep)) => codec.val = codec.arg
  /\ codec.pc = "safe,safe" => codec.out = codec.val

\* C13 witness: safe() was applied twice to a bare path that needs escaping,
\* and to a URI
C13_Witness ==
  /\ codec.pc = "safe,safe"
  /\ \/ codec.arg = <<":", "%">> /\ codec.out = codec.val
        /\ codec.val = FilePrefix \o <<"%", "3", "A", "%", "2", "5">>
     \/ codec.arg = FilePrefix \o <<"%", "2", "5">> /\ codec.out = codec.arg

\* number of newlines in a content
Newlines(c) == Cardinality({i \in DOMAIN c : c[i] = NL})
EndsWithNewline(c) == c # <<>> /\ c[Len(c)] = NL

\* C14: readlines() of the byte layer on a content with k newlines returns
\* k + 1 chunks, each ending with a newline; their concatenation is the
\* content followed by one more newline, and for a content that ends with a
\* newline the last chunk is a lone newline.
C14_RawReadlinesExtraNewline ==
  (script.pc = "done" /\ layer = "raw")
    => LET content == fs["ra"].data
           lines == last.lines
       IN /\ last.outcome = "ok"
          /\ Len(lines) = Newlines(content) + 1
          /\ \A i \in DOMAIN lines :
               EndsWithNewline(lines[i]) /\ Newlines(lines[i]) = 1
          /\ Join(lines) = content \o <<NL>>
          /\ EndsWithNewline(content) => lines[Len(lines)] = <<NL>>

\* C14 witness: the content a, newline, a, newline was read as three chunks
C14_Witness ==
  /\ script.pc = "done" /\ layer = "raw"
  /\ fs["ra"].data = <<0, NL, 0, NL>>
  /\ last.lines = <<(<<0, NL>>), (<<0, NL>>), (<<NL>>)>>

\* C15: readlines() of the text layer gives each segment between line
\* separators with a newline appended and leaves out the last one exactly
\* when it is a lone newline (the text is empty or ends with the separator);
\* for a text that ends with the separator the lines concatenate to the text
\* and are the lines of the byte layer without their last element.
C15_TextReadlinesDropsLoneNewline ==
  (script.pc = "done" /\ layer = "utf8")
    => LET text == fs["ra"].data
           lines == last.lines
           lone == text = <<>> \/ EndsWithNewline(text)
       IN /\ last.outcome = "ok"
          /\ \A i \in DOMAIN lines :
               EndsWithNewline(lines[i]) /\ Newlines(lines[i]) = 1
          /\ Len(lines) = IF lone THEN Newlines(text) ELSE Newlines(text) + 1
          /\ Join(lines) = IF lone THEN text ELSE text \o <<NL>>
          /\ EndsWithNewline(text) => Append(lines, <<NL>>) = RawLines(text)

\* C15 witness: the text a, newline, a, newline was read as two lines
C15_Witness ==
  /\ script.pc = "done" /\ layer = "utf8"
  /\ fs["ra"].data = <<0, NL, 0, NL>>
  /\ last.lines = <<(<<0, NL>>), (<<0, NL>>)>>

\* C16: writable() returns true exactly when the mode has the write flag and
\* readable() returns true always, in every state of the stream; a write()
\* on a stream opened in append mode, which reports writable() false, is
\* accepted and stores its bytes, behind the old content when it is the
\* first call on the stream.
C16_WritableIsWriteFlag ==
  [][/\ last'.op = "writable"
          => last'.num = Bool(mode \in {"w", "wb"}) /\ last'.outcome = "ok"
     /\ last'.op = "readable" => last'.num = 1 /\ last'.outcome = "ok"
     /\ (last'.op = "write" /\ mode \in {"a", "ab"} /\ IsOpen(gout))
          => \A b \in WriteInputs :
               Write(b, "none", 0)
                 => /\ last'.outcome = "ok" /\ last'.num = Len(b)
                    /\ Data' = WriteAt(Data, cursor, b)
                    /\ last.op = "open" => Data' = Data \o b]_vars

\* C16 witness: a stream opened in append mode that has written a byte
\* behind the content reports that it is not writable
C16_Witness ==
  /\ last.op = "writable" /\ last.num = 0
  /\ mode \in {"a", "ab"} /\ ~closed
  /\ Len(Data) > size

\* C17: the size a stream caches is set by open, to the size the backend
\* reports in read and append mode and to 0 in a mode with the write flag,
\* and no later call changes it; a read with a negative count, read(-1),
\* readall() and readlines() alike, gets what the backend returns for that
\* many bytes from the cursor, whatever the length of the resource has become.
C17_CachedSizeFixedAtOpen ==
  [][/\ (last'.op = "open" /\ last'.outcome = "ok")
          => size' = IF mode' \in {"w", "wb"} THEN 0
                                              ELSE Len(fs[target'].data)
     /\ layer # "none" => size' = size
     /\ (last'.op \in {"read", "readall"} /\ last'.outcome = "ok")
          => ((Read(0 - 1, FALSE) \/ ReadAll(FALSE))
                => /\ last'.bytes = ReadBytes(Data, cursor, size)
                   /\ cursor' = cursor + Len(last'.bytes))
     /\ (last'.op = "readlines" /\ last'.outcome = "ok")
          => Join(last'.lines) \in
               {ReadBytes(Data, cursor, size),
                ReadBytes(Data, cursor, size) \o <<NL>>}]_vars

\* C17 witness: a stream opened in append mode on one byte has written a
\* second one, gone back to the start, and readall() returned one byte
C17_Witness ==
  /\ last.op = "readall" /\ last.outcome = "ok"
  /\ mode \in {"a", "ab"} /\ size = 1
  /\ Len(Data) = 2 /\ Len(last.bytes) = 1 /\ cursor = 1

\* C18: a close() on a stream that is closed already, made directly or by
\* leaving a with-scope, releases no backend handle again and raises no
\* error; leaving a with-scope leaves the stream closed.
C18_CloseIdempotent ==
  /\ (last.op \in {"close", "__exit__"} /\ last.wasClosed)
       => (last.calls = <<>> /\ last.outcome = "ok")
  /\ last.op = "__exit__" => closed

\* C19: a write() on a stream opened in read mode fails with the generic
\* I/O error and leaves the content of the resource, the cursor and the
\* closed flag as they were.
C19_ReadModeWriteRaisesIOError ==
  [][(last'.op = "write" /\ mode \in {"r", "rb"})
       => /\ last'.outcome = "IOError"
          /\ fs' = fs /\ cursor' = cursor /\ closed' = closed]_vars

\* C20: opening an existing resource in write mode leaves its content as it
\* is, with the cursor at offset 0; after a write of B and the close the
\* resource holds B followed by the old bytes from offset len(B) on; the
\* resource gets shorter only by an explicit truncate.
C20_WriteModeKeepsOldContent ==
  LET now == fs["ra"].data
  IN /\ script.pc = "write"
          => (last.outcome = "ok" /\ now = script.old /\ cursor = 0)
     /\ (script.pc \in {"close", "done"} /\ script.n = 0)
          => now = script.b \o Drop(script.old, Len(script.b))
     /\ Len(now) < Len(script.old) => script.n = 1

\* C20 witness: one byte was written over a content of two bytes and the
\* stream closed; the second old byte is still there
C20_Witness ==
  /\ script.pc = "done" /\ script.n = 0 /\ closed
  /\ script.old = <<0, NL>> /\ script.b = <<NL>>
  /\ fs["ra"].data = <<NL, NL>>

====
